---------------------------- MODULE Spec2Model ----------------------------
(***************************************************************************)
(* A model of Agent.py: the start-up sequence of main(), the three panels  *)
(* of MainWindow (text generation, code editor with PythonHighlighter,     *)
(* web browser) and the handlers the event loop runs.                      *)
(*                                                                         *)
(* Python strings are modelled as sequences of one-character strings, so   *)
(* that strip(), startswith(), concatenation and the regular expressions   *)
(* are computed character by character.  An optional value (os.getenv      *)
(* returning None, a message whose content is None) is a record            *)
(* [isNone, s].                                                            *)
(***************************************************************************)
EXTENDS Integers, Sequences, FiniteSets, TLC

(***************************************************************************)
(* Bounds of the model.                                                    *)
(***************************************************************************)
\* the number of generate actions (clicks on "Generate") in one run
MaxGens == 3
\* the length of a block of the code editor that is typed key by key
MaxLen == 4

(***************************************************************************)
(* Python string helpers.                                                  *)
(***************************************************************************)
\* the characters str.strip() removes, among those the model uses
Whitespace == {" ", "\t"}

RECURSIVE LStrip(_)
LStrip(s) ==
    IF s = <<>> THEN s
    ELSE IF Head(s) \in Whitespace THEN LStrip(Tail(s)) ELSE s

RECURSIVE RStrip(_)
RStrip(s) ==
    IF s = <<>> THEN s
    ELSE IF s[Len(s)] \in Whitespace THEN RStrip(SubSeq(s, 1, Len(s) - 1)) ELSE s

\* str.strip()
Strip(s) == RStrip(LStrip(s))

\* str.startswith(p)
StartsWith(s, p) == Len(s) >= Len(p) /\ SubSeq(s, 1, Len(p)) = p

None == [isNone |-> TRUE, s |-> <<>>]
Some(s) == [isNone |-> FALSE, s |-> s]

\* a mutant of Falsy: "x is None" instead of "not x"
IsNoneOnly(x) == x.isNone

\* Python's "not x" for an optional string: None and "" are both falsy
Falsy(x) == x.isNone \/ x.s = <<>>

(***************************************************************************)
(* The inputs of the model.                                                *)
(***************************************************************************)
HttpPrefix == <<"h", "t", "t", "p", ":", "/", "/">>
HttpsPrefix == <<"h", "t", "t", "p", "s", ":", "/", "/">>
ExampleCom == <<"e", "x", "a", "m", "p", "l", "e", ".", "c", "o", "m">>
StartPage == HttpsPrefix \o <<"w", "w", "w", ".", "g", "o", "o", "g", "l", "e", ".", "c", "o", "m">>

\* what OPENAI_API_KEY can be in the environment: unset, empty, a key
EnvKeys == {None, Some(<<>>), Some(<<"s", "k">>)}

\* what the user can type in the prompt field
Prompts == {<<>>, <<" ">>, <<"\t", " ">>, <<"a">>, <<" ", "a", " ">>, <<"a", " ", "a">>}

\* the message contents the completion service can reply with
Contents == {<<>>, <<" ">>, <<"a">>, <<" ", "a">>, <<"a", "\t">>, <<" ", "a", " ", "a", " ">>}

\* what the user can type in the address bar
UrlInputs ==
    { ExampleCom,
      HttpPrefix \o ExampleCom,
      HttpsPrefix \o ExampleCom,
      <<" ">> \o HttpPrefix \o ExampleCom \o <<" ">>,
      <<" ">> \o ExampleCom,
      <<"H", "T", "T", "P", ":", "/", "/">> \o ExampleCom,
      <<"a", "/">> \o HttpPrefix,
      <<"h", "t", "t", "p", ":", "/">>,
      <<>> }

VARIABLES
    pc,            \* where main() is: "main", "construct", "fatal_dialog",
                   \* "constructed", "running", "exited"
    api_key,       \* os.getenv("OPENAI_API_KEY")
    criticals,     \* QMessageBox.critical dialogs shown so far
    warnings,      \* QMessageBox.warning dialogs shown so far
    windowShown,   \* window.show() has been called
    exitStatus,    \* the argument of sys.exit, -1 while the process runs
    prompt_input,  \* self.prompt_input.text() when "Generate" was last clicked
    result_text,   \* self.result_text.toPlainText()
    url_input,     \* self.url_input.text() when "Go" was last clicked
    webviewUrl,    \* the string the QUrl handed to self.webview.setUrl was made of
    requests,      \* calls of openai.ChatCompletion.create so far
    gens,          \* runs of handle_generate so far
    nonBlankGens,  \* those of them whose prompt field held a non-blank text
    lastGen,       \* the last call of generator: the service's outcome, what
                   \* the call returned and printed, the result area before it
    block,         \* the text of the code editor's block, as code points
    formats        \* the style of each UTF-16 code unit of the block

appVars == <<pc, api_key, criticals, warnings, windowShown, exitStatus,
             prompt_input, result_text, url_input, webviewUrl, requests,
             gens, nonBlankGens, lastGen>>
editorVars == <<block, formats>>
vars == <<appVars, editorVars>>

(***************************************************************************)
(* 1. Text generation: create_text_generation_pipeline and generator.      *)
(***************************************************************************)
\* What openai.ChatCompletion.create can do: raise (a transport failure, an
\* API failure) or return a response, whose list of choices may be empty and
\* whose first message may have no content.
Outcomes ==
    { [raises |-> e, choices |-> <<>>] : e \in {"transport", "api"} }
    \cup { [raises |-> "no", choices |-> <<>>],
           [raises |-> "no", choices |-> <<None>>],
           [raises |-> "no", choices |-> <<Some(<<"a">>), Some(<<" ">>)>>] }
    \cup { [raises |-> "no", choices |-> <<Some(c)>>] : c \in Contents }

\* create_text_generation_pipeline raises ValueError for a falsy key
PipelineRaises(key) == Falsy(key)

\* The try block of generator: the call, then response.choices[0].message
\* .content.strip().  An empty list of choices raises IndexError, a content of
\* None raises AttributeError.
TryBody(outcome) ==
    IF outcome.raises /= "no" THEN [exception |-> TRUE, value |-> <<>>]
    ELSE IF Len(outcome.choices) = 0 THEN [exception |-> TRUE, value |-> <<>>]
    ELSE IF outcome.choices[1].isNone THEN [exception |-> TRUE, value |-> <<>>]
    ELSE [exception |-> FALSE, value |-> Strip(outcome.choices[1].s)]

\* a mutant of generator: no except clause, the exception reaches the caller
GeneratorNoExcept(prompt, outcome) ==
    LET t == TryBody(outcome)
    IN  [raised |-> t.exception, value |-> t.value, printed |-> 0, sent |-> 1]

\* a mutant of generator: a failed call is tried once more
GeneratorRetry(prompt, outcome) ==
    LET t == TryBody(outcome)
    IN  IF t.exception
        THEN [raised |-> FALSE, value |-> <<>>, printed |-> 1, sent |-> 2]
        ELSE [raised |-> FALSE, value |-> t.value, printed |-> 0, sent |-> 1]

\* a mutant of generator: the except clause returns the error text
GeneratorErrorText(prompt, outcome) ==
    LET t == TryBody(outcome)
    IN  IF t.exception
        THEN [raised |-> FALSE, value |-> <<"E", "r", "r">>, printed |-> 1, sent |-> 1]
        ELSE [raised |-> FALSE, value |-> t.value, printed |-> 0, sent |-> 1]

\* generator(prompt): what it returns, whether it raises, the lines it prints
\* and the requests it sends
Generator(prompt, outcome) ==
    LET t == TryBody(outcome)
    IN  IF t.exception
        THEN [raised |-> FALSE, value |-> <<>>, printed |-> 1, sent |-> 1]
        ELSE [raised |-> FALSE, value |-> t.value, printed |-> 0, sent |-> 1]

NoGen == [ran |-> FALSE, outcome |-> [raises |-> "no", choices |-> <<>>],
          raised |-> FALSE, value |-> <<>>, printed |-> 0, before |-> <<>>]

(***************************************************************************)
(* 4. The entry point: main().                                             *)
(***************************************************************************)
\* the status main and MainWindow.__init__ hand to sys.exit after the dialog
FatalExitStatus == 1
\* app.exec_() returns 0 when the window is closed
EventLoopExitStatus == 0

AppInit ==
    /\ pc = "main"
    /\ api_key \in EnvKeys
    /\ criticals = 0
    /\ warnings = 0
    /\ windowShown = FALSE
    /\ exitStatus = -1
    /\ prompt_input = <<>>
    /\ result_text = <<>>
    /\ url_input = <<>>
    /\ webviewUrl = <<>>
    /\ requests = 0
    /\ gens = 0
    /\ nonBlankGens = 0
    /\ lastGen = NoGen

\* main, lines 256-258: the key is read and tested; a falsy key opens the
\* "API Key Error" dialog, which blocks until it is dismissed
MainCheckKey ==
    /\ pc = "main"
    /\ IF Falsy(api_key)
       THEN /\ criticals' = criticals + 1
            /\ pc' = "fatal_dialog"
       ELSE /\ criticals' = criticals
            /\ pc' = "construct"
    /\ UNCHANGED <<api_key, warnings, windowShown, exitStatus, prompt_input,
                   result_text, url_input, webviewUrl, requests, gens,
                   nonBlankGens, lastGen, editorVars>>

\* the dialog returns and sys.exit(1) runs (line 259, line 147)
FatalExit ==
    /\ pc = "fatal_dialog"
    /\ pc' = "exited"
    /\ exitStatus' = FatalExitStatus
    /\ UNCHANGED <<api_key, criticals, warnings, windowShown, prompt_input,
                   result_text, url_input, webviewUrl, requests, gens,
                   nonBlankGens, lastGen, editorVars>>

\* MainWindow.__init__: the pipeline is created (a ValueError opens the
\* "Model Load Error" dialog), then the three tabs are built; the browser tab
\* starts on the start page
ConstructWindow ==
    /\ pc = "construct"
    /\ IF PipelineRaises(api_key)
       THEN /\ criticals' = criticals + 1
            /\ pc' = "fatal_dialog"
            /\ UNCHANGED <<url_input, webviewUrl>>
       ELSE /\ criticals' = criticals
            /\ pc' = "constructed"
            /\ url_input' = StartPage
            /\ webviewUrl' = StartPage
    /\ UNCHANGED <<api_key, warnings, windowShown, exitStatus, prompt_input,
                   result_text, requests, gens, nonBlankGens, lastGen,
                   editorVars>>

\* window.show(), line 268, then the event loop starts
ShowWindow ==
    /\ pc = "constructed"
    /\ pc' = "running"
    /\ windowShown' = TRUE
    /\ UNCHANGED <<api_key, criticals, warnings, exitStatus, prompt_input,
                   result_text, url_input, webviewUrl, requests, gens,
                   nonBlankGens, lastGen, editorVars>>

\* the window is closed: app.exec_() returns and sys.exit gets its value
CloseWindow ==
    /\ pc = "running"
    /\ pc' = "exited"
    /\ exitStatus' = EventLoopExitStatus
    /\ UNCHANGED <<api_key, criticals, warnings, windowShown, prompt_input,
                   result_text, url_input, webviewUrl, requests, gens,
                   nonBlankGens, lastGen, editorVars>>

(***************************************************************************)
(* 3. MainWindow: the handlers.                                            *)
(***************************************************************************)
\* the text is empty or holds only whitespace
IsBlank(s) == \A i \in 1..Len(s) : s[i] \in Whitespace

\* a mutant of PromptText: the field's text is not stripped
PromptTextNoStrip(field) == field

\* line 191: prompt = self.prompt_input.text().strip()
PromptText(field) == Strip(field)

\* handle_generate with p in the prompt field, the service answering with
\* outcome if it is asked.  An exception that left generator would leave the
\* handler before setPlainText.
HandleGenerate(p, outcome) ==
    /\ pc = "running"
    /\ gens < MaxGens
    /\ gens' = gens + 1
    /\ nonBlankGens' = nonBlankGens + (IF IsBlank(p) THEN 0 ELSE 1)
    /\ prompt_input' = p
    /\ LET prompt == PromptText(p)
       IN  IF prompt = <<>>
           THEN /\ warnings' = warnings + 1
                /\ UNCHANGED <<result_text, requests, lastGen>>
           ELSE LET r == Generator(prompt, outcome)
                IN  /\ requests' = requests + r.sent
                    /\ result_text' = IF r.raised THEN result_text ELSE r.value
                    /\ lastGen' = [ran |-> TRUE, outcome |-> outcome,
                                   raised |-> r.raised, value |-> r.value,
                                   printed |-> r.printed, before |-> result_text]
                    /\ UNCHANGED warnings
    /\ UNCHANGED <<pc, api_key, criticals, windowShown, exitStatus, url_input,
                   webviewUrl, editorVars>>

\* a mutant of NavigationTarget: the input is not stripped
NavigationTargetNoStrip(text) ==
    IF ~StartsWith(text, HttpPrefix) /\ ~StartsWith(text, HttpsPrefix)
    THEN HttpsPrefix \o text
    ELSE text

\* load_url, lines 242-244: the string the QUrl is made of
NavigationTarget(text) ==
    LET url == Strip(text)
    IN  IF ~StartsWith(url, HttpPrefix) /\ ~StartsWith(url, HttpsPrefix)
        THEN HttpsPrefix \o url
        ELSE url

\* load_url with u in the address bar
LoadUrl(u) ==
    /\ pc = "running"
    /\ url_input' = u
    /\ webviewUrl' = NavigationTarget(u)
    /\ UNCHANGED <<pc, api_key, criticals, warnings, windowShown, exitStatus,
                   prompt_input, result_text, requests, gens, nonBlankGens,
                   lastGen, editorVars>>

(***************************************************************************)
(* 2. PythonHighlighter.                                                   *)
(*                                                                         *)
(* The block is a QString, a sequence of UTF-16 code units; highlightBlock *)
(* receives it as a Python str, a sequence of code points, in which a      *)
(* character outside the Basic Multilingual Plane is one element and not   *)
(* two.  The regular expressions work on the str, and their spans are      *)
(* handed as they are to setFormat, which counts in code units.            *)
(***************************************************************************)
\* a character outside the Basic Multilingual Plane (U+1F600)
Astral == "U+1F600"

\* the characters the user types key by key in the model
TypedChars == {"i", "f", " ", "\"", "'", "#", Astral}

\* the number of UTF-16 code units of a code point
CodeUnits(c) == IF c = Astral THEN 2 ELSE 1

\* QString::length() of the block whose str is text
RECURSIVE QtLength(_)
QtLength(text) ==
    IF text = <<>> THEN 0 ELSE CodeUnits(Head(text)) + QtLength(Tail(text))

\* \w of a str pattern, among the characters the model uses
WordChars ==
    {"a", "b", "c", "d", "e", "f", "h", "i", "k", "l", "m", "n", "o", "p",
     "r", "s", "t", "u", "w", "x", "y", "N", "T", "F", "_", "1"}

\* "." without re.DOTALL
DotMatches(c) == c /= "\n"

\* \b at position p (0-based, between text[p-1] and text[p] of the str)
WordBoundary(text, p) ==
    LET before == p > 0 /\ text[p] \in WordChars
        after == p < Len(text) /\ text[p + 1] \in WordChars
    IN  before /= after

\* self.keywords, lines 87-92, without the \b at both ends
Keywords ==
    << <<"d", "e", "f">>, <<"c", "l", "a", "s", "s">>,
       <<"i", "m", "p", "o", "r", "t">>, <<"f", "r", "o", "m">>, <<"a", "s">>,
       <<"i", "f">>, <<"e", "l", "i", "f">>, <<"e", "l", "s", "e">>,
       <<"w", "h", "i", "l", "e">>, <<"f", "o", "r">>, <<"i", "n">>,
       <<"r", "e", "t", "u", "r", "n">>, <<"w", "i", "t", "h">>,
       <<"t", "r", "y">>, <<"e", "x", "c", "e", "p", "t">>,
       <<"r", "a", "i", "s", "e">>, <<"p", "a", "s", "s">>,
       <<"N", "o", "n", "e">>, <<"T", "r", "u", "e">>,
       <<"F", "a", "l", "s", "e">> >>

\* self.keywordPatterns, self.stringPatterns, self.commentPatterns
keywordPatterns == [k \in 1..Len(Keywords) |-> [kind |-> "keyword", word |-> Keywords[k]]]
stringPatterns ==
    << [kind |-> "string", word |-> <<"\"">>], [kind |-> "string", word |-> <<"'">>] >>
commentPatterns == << [kind |-> "comment", word |-> <<"#">>] >>

\* \bword\b matched at position p: the end of the match, or -1
KeywordMatchEnd(word, text, p) ==
    IF /\ p + Len(word) <= Len(text)
       /\ text[p + 1] = word[1]
       /\ SubSeq(text, p + 1, p + Len(word)) = word
       /\ WordBoundary(text, p)
       /\ WordBoundary(text, p + Len(word))
    THEN p + Len(word)
    ELSE -1

\* q.*?q matched at position p: the match ends after the nearest q that
\* follows, provided "." matches every character in between
StringMatchEnd(q, text, p) ==
    IF p < Len(text) /\ text[p + 1] = q
    THEN LET closers == { j \in (p + 2)..Len(text) :
                             /\ text[j] = q
                             /\ \A k \in (p + 2)..(j - 1) : DotMatches(text[k]) }
         IN  IF closers = {} THEN -1
             ELSE CHOOSE j \in closers : \A k \in closers : j <= k
    ELSE -1

\* #.* matched at position p: the match runs as far as "." matches
CommentMatchEnd(text, p) ==
    IF p < Len(text) /\ text[p + 1] = "#"
    THEN LET ends == { e \in (p + 1)..Len(text) :
                          \A k \in (p + 2)..e : DotMatches(text[k]) }
         IN  CHOOSE e \in ends : \A k \in ends : k <= e
    ELSE -1

\* the end of the match of pattern at position p of text, or -1
MatchEnd(pattern, text, p) ==
    CASE pattern.kind = "keyword" -> KeywordMatchEnd(pattern.word, text, p)
      [] pattern.kind = "string" -> StringMatchEnd(pattern.word[1], text, p)
      [] OTHER -> CommentMatchEnd(text, p)

\* a mutant of NextSearchPos: the search resumes one character after the
\* start of the last match, so that matches may overlap
NextSearchPosOverlapping(start, end) == start + 1

\* where finditer resumes after the match (start, end)
NextSearchPos(start, end) == IF end = start THEN end + 1 ELSE end

\* expression.finditer(text), from position pos on: the spans (start, end),
\* 0-based and end-exclusive, from left to right
RECURSIVE FindIter(_, _, _)
FindIter(pattern, text, pos) ==
    IF pos > Len(text) THEN <<>>
    ELSE LET e == MatchEnd(pattern, text, pos)
         IN  IF e >= 0
             THEN <<[start |-> pos, end |-> e]>>
                      \o FindIter(pattern, text, NextSearchPos(pos, e))
             ELSE FindIter(pattern, text, pos + 1)

\* QSyntaxHighlighter::setFormat(start, count, format) on the code units of
\* the block: units start .. start + count - 1 (0-based), cut at the end
SetFormat(fmts, start, count, format) ==
    IF start < 0 \/ start >= Len(fmts) THEN fmts
    ELSE LET end == IF start + count < Len(fmts) THEN start + count ELSE Len(fmts)
         IN  [u \in 1..Len(fmts) |->
                 IF start < u /\ u <= end THEN format ELSE fmts[u]]

\* the inner loop: setFormat for each match of one pattern
RECURSIVE ApplyMatches(_, _, _)
ApplyMatches(fmts, spans, format) ==
    IF spans = <<>> THEN fmts
    ELSE ApplyMatches(
             SetFormat(fmts, Head(spans).start,
                       Head(spans).end - Head(spans).start, format),
             Tail(spans), format)

\* the outer loop: each pattern of one class in turn
RECURSIVE ApplyPatterns(_, _, _, _)
ApplyPatterns(fmts, patterns, text, format) ==
    IF patterns = <<>> THEN fmts
    ELSE ApplyPatterns(
             ApplyMatches(fmts, FindIter(Head(patterns), text, 0), format),
             Tail(patterns), text, format)

\* the formats of a block before highlightBlock runs: none
ClearedFormats(text) == [u \in 1..QtLength(text) |-> "none"]

\* highlightBlock(text), lines 105-126: keywords, then strings, then comments
HighlightBlock(text) ==
    LET k == ApplyPatterns(ClearedFormats(text), keywordPatterns, text, "keyword")
        s == ApplyPatterns(k, stringPatterns, text, "string")
    IN  ApplyPatterns(s, commentPatterns, text, "comment")

(***************************************************************************)
(* The code editor: every change of the block makes the document call      *)
(* highlightBlock on it, with the formats of the block cleared.            *)
(***************************************************************************)
ReturnOk == <<"r", "e", "t", "u", "r", "n", " ", "\"", "o", "k", "\"">>
AComment == <<"#", " ", "a", " ", "c", "o", "m", "m", "e", "n", "t">>

\* the texts the user pastes into the editor
PastedBlocks ==
    { ReturnOk,
      AComment,
      <<"x", " ", "#", " ", "a", " ", "#", "b">>,
      <<"s", "=", "\"", "a", "#", "b", "\"">>,
      <<"\"", "i", "t", "'", "s", "\"", " ", "'", "a", "'", " ", "\"", "b", "\"">>,
      <<"c", "l", "a", "s", "s", " ", "a", "s", "_", "i", "f">>,
      <<"'", Astral, "'", " ", "i", "f">>,
      <<Astral, " ">> \o ReturnOk,
      <<Astral>> \o AComment }

EditorInit ==
    /\ block = <<>>
    /\ formats = <<>>

\* a key is typed at the end of the block
TypeChar(c) ==
    /\ pc = "running"
    /\ Len(block) < MaxLen
    /\ block' = Append(block, c)
    /\ formats' = HighlightBlock(block')
    /\ UNCHANGED appVars

\* the last character of the block is deleted
Backspace ==
    /\ pc = "running"
    /\ block /= <<>>
    /\ block' = SubSeq(block, 1, Len(block) - 1)
    /\ formats' = HighlightBlock(block')
    /\ UNCHANGED appVars

\* a text is pasted into the empty editor
Paste(text) ==
    /\ pc = "running"
    /\ block = <<>>
    /\ block' = text
    /\ formats' = HighlightBlock(block')
    /\ UNCHANGED appVars

(***************************************************************************)
(* The specifications.                                                     *)
(***************************************************************************)
Init == AppInit /\ EditorInit

Generate == \E p \in Prompts, o \in Outcomes : HandleGenerate(p, o)
Navigate == \E u \in UrlInputs : LoadUrl(u)

Next ==
    \/ MainCheckKey
    \/ FatalExit
    \/ ConstructWindow
    \/ ShowWindow
    \/ Generate
    \/ Navigate
    \/ CloseWindow

\* the program from its start: main(), then the text generation and browser
\* handlers
Spec == Init /\ [][Next]_vars

\* the statements of main() run one after the other, and a dialog that is
\* open gets dismissed
StartUp == MainCheckKey \/ FatalExit \/ ConstructWindow \/ ShowWindow
FairSpec == Spec /\ WF_vars(StartUp)

\* the code editor of a window that is shown: the tabs share no state
EditorStart ==
    /\ pc = "running"
    /\ api_key = Some(<<"s", "k">>)
    /\ criticals = 0
    /\ warnings = 0
    /\ windowShown = TRUE
    /\ exitStatus = -1
    /\ prompt_input = <<>>
    /\ result_text = <<>>
    /\ url_input = StartPage
    /\ webviewUrl = StartPage
    /\ requests = 0
    /\ gens = 0
    /\ nonBlankGens = 0
    /\ lastGen = NoGen
    /\ EditorInit

Type == \E c \in TypedChars : TypeChar(c)
PasteBlock == \E t \in PastedBlocks : Paste(t)

EditorNext ==
    \/ Type
    \/ Backspace
    \/ PasteBlock

EditorSpec == EditorStart /\ [][EditorNext]_vars

(***************************************************************************)
(* The properties.                                                         *)
(***************************************************************************)
\* v is c without its leading and trailing whitespace
IsTrimOf(v, c) ==
    \E a \in 0..Len(c) : \E b \in a..Len(c) :
        /\ v = SubSeq(c, a + 1, b)
        /\ \A i \in 1..a : c[i] \in Whitespace
        /\ \A i \in (b + 1)..Len(c) : c[i] \in Whitespace
        /\ v /= <<>> => (v[1] \notin Whitespace /\ v[Len(v)] \notin Whitespace)

\* the remote call failed: the transport or the API raised, or the response
\* is malformed (no choice, no content)
CallFailed(outcome) ==
    \/ outcome.raises \in {"transport", "api"}
    \/ outcome.choices = <<>>
    \/ outcome.choices[1].isNone

\* C1: for a non-empty prompt and every outcome of the remote call, generator
\* does not raise; it returns the reply without its leading and trailing
\* whitespace, or, when the call failed, the empty string after printing one
\* diagnostic message.
C1_GeneratorNeverRaises ==
    lastGen.ran =>
        /\ ~lastGen.raised
        /\ CallFailed(lastGen.outcome) =>
               lastGen.value = <<>> /\ lastGen.printed = 1
        /\ ~CallFailed(lastGen.outcome) =>
               IsTrimOf(lastGen.value, lastGen.outcome.choices[1].s)

\* C1, witness: a call that got a response without content returned ""
C1_Witness ==
    /\ lastGen.ran
    /\ lastGen.outcome.raises = "no"
    /\ lastGen.outcome.choices = <<None>>
    /\ lastGen.value = <<>>
    /\ lastGen.printed = 1

\* C2: a generate action whose prompt field is empty or holds only whitespace
\* sends no request and shows one warning dialog, whatever came before.
C2_BlankPromptNoCall ==
    [][(gens' = gens + 1 /\ IsBlank(prompt_input'))
          => (requests' = requests /\ warnings' = warnings + 1)]_vars

\* C2, witness: a blank generate action after a request and a navigation
C2_Witness ==
    /\ gens >= 2
    /\ requests >= 1
    /\ url_input = ExampleCom
    /\ prompt_input = <<"\t", " ">>
    /\ warnings = 1

\* the credential is missing or empty
KeyMissing == api_key.isNone \/ Len(api_key.s) = 0

\* C3: with the credential missing or empty, the window is never shown, the
\* process ends, and it ends with one fatal dialog shown and a status other
\* than 0.
C3_MissingKeyFatal ==
    /\ [](KeyMissing => ~windowShown)
    /\ [](KeyMissing /\ pc = "exited" => criticals = 1 /\ exitStatus /= 0)
    /\ [](KeyMissing /\ criticals = 0 => exitStatus = -1)
    /\ (KeyMissing ~> pc = "exited")

\* C3, witness: the process has ended for an empty credential
C3_Witness ==
    /\ api_key = Some(<<>>)
    /\ pc = "exited"
    /\ criticals = 1
    /\ exitStatus = 1
    /\ ~windowShown

\* t starts with http:// or with https://
HasSchemePrefix(t) ==
    \/ Len(t) >= 7 /\ \A i \in 1..7 : t[i] = HttpPrefix[i]
    \/ Len(t) >= 8 /\ \A i \in 1..8 : t[i] = HttpsPrefix[i]

\* C4: the navigation target is the trimmed address-bar input when that starts
\* with http:// or https://, and https:// followed by it otherwise.
C4_NavigationTarget ==
    windowShown =>
        \E a \in 0..Len(url_input) : \E b \in a..Len(url_input) :
            LET t == SubSeq(url_input, a + 1, b)
            IN  /\ IsTrimOf(t, url_input)
                /\ webviewUrl = IF HasSchemePrefix(t) THEN t ELSE HttpsPrefix \o t

\* C4, witness: example.com was loaded
C4_Witness ==
    /\ windowShown
    /\ url_input = ExampleCom
    /\ webviewUrl = HttpsPrefix \o ExampleCom

\* C9: the number of requests sent equals the number of generate actions with
\* a non-blank prompt, and each such action sends exactly one, failed or not.
C9_OneRequestPerGenerate ==
    /\ requests = nonBlankGens
    /\ requests <= gens

\* C9, witness: two non-blank generate actions, the last one failed
C9_Witness ==
    /\ nonBlankGens = 2
    /\ lastGen.ran
    /\ lastGen.outcome.raises = "transport"
    /\ ~IsBlank(prompt_input)

\* C10: a failed request empties the result area and opens no dialog; a
\* generate action with a blank prompt leaves the result area as it was.
C10_ErrorIsEmptyResult ==
    [][/\ (gens' = gens + 1 /\ ~IsBlank(prompt_input')
              /\ CallFailed(lastGen'.outcome))
          => (result_text' = <<>> /\ criticals' = criticals
                 /\ warnings' = warnings)
       /\ (gens' = gens + 1 /\ IsBlank(prompt_input'))
          => result_text' = result_text]_vars

\* C10, witness: a failed request has emptied a result area that held a reply
C10_Witness ==
    /\ lastGen.ran
    /\ CallFailed(lastGen.outcome)
    /\ ~IsBlank(prompt_input)
    /\ lastGen.before /= <<>>
    /\ result_text = <<>>

(***************************************************************************)
(* The properties of the highlighter.  A character of the block is an      *)
(* element of the str; it has a style when all its code units have it.     *)
(***************************************************************************)
\* the code units (1-based) of the i-th character of text
UnitsOf(text, i) ==
    LET off == QtLength(SubSeq(text, 1, i - 1))
    IN  (off + 1)..(off + CodeUnits(text[i]))

CharHasStyle(i, style) == \A u \in UnitsOf(block, i) : formats[u] = style
CharLacksStyle(i, style) == \A u \in UnitsOf(block, i) : formats[u] /= style

\* every character of the block is one code unit
IsBmp(text) == \A i \in 1..Len(text) : CodeUnits(text[i]) = 1

\* the spans finditer yields for the patterns of one class
SpansOfPattern(pattern) ==
    LET found == FindIter(pattern, block, 0)
    IN  { found[k] : k \in 1..Len(found) }
SpansOfClass(patterns) ==
    UNION { SpansOfPattern(patterns[k]) : k \in 1..Len(patterns) }

Overlap(s, t) == s.start < t.end /\ t.start < s.end
PairwiseDisjoint(spans) ==
    \A s \in spans : \A t \in spans : s /= t => ~Overlap(s, t)

\* the i-th character (1-based) lies in one of the spans
Covered(i, spans) == \E s \in spans : s.start < i /\ i <= s.end

HashPositions == { i \in 1..Len(block) : block[i] = "#" }

CommentSpanExact ==
    HashPositions /= {} =>
        LET first == CHOOSE h \in HashPositions : \A k \in HashPositions : h <= k
        IN  \A i \in 1..Len(block) :
                IF i < first THEN CharLacksStyle(i, "comment")
                ELSE CharHasStyle(i, "comment")

\* C5: in a block with a '#', the characters with the comment style are
\* exactly those from the first '#' to the end of the block.
C5_CommentSpan == CommentSpanExact

\* C5 holds of the blocks without a character outside the BMP
BmpCommentSpan == IsBmp(block) => CommentSpanExact

\* keyword span k and string span s touch, or have one space between them
Adjacent(k, s) ==
    \/ k.end = s.start
    \/ s.end = k.start
    \/ k.end + 1 = s.start /\ block[k.end + 1] = " "
    \/ s.end + 1 = k.start /\ block[s.end + 1] = " "

KeywordNextToString ==
    HashPositions = {} =>
        \A k \in SpansOfClass(keywordPatterns) :
            \A s \in SpansOfClass(stringPatterns) :
                (/\ Adjacent(k, s)
                 /\ \A t \in SpansOfClass(stringPatterns) : ~Overlap(k, t))
                => /\ \A i \in (k.start + 1)..k.end : CharHasStyle(i, "keyword")
                   /\ \A i \in (s.start + 1)..s.end : CharHasStyle(i, "string")
                   /\ \A i \in (k.end + 1)..s.start : CharHasStyle(i, "none")
                   /\ \A i \in (s.end + 1)..k.start : CharHasStyle(i, "none")

\* C6: in a block without '#', a keyword next to a string literal has the
\* keyword style on all its characters, the literal has the string style on
\* all of its, quotes included, and what lies between them has no style.
C6_KeywordAndString == KeywordNextToString

\* C6 holds of the blocks without a character outside the BMP
BmpKeywordAndString == IsBmp(block) => KeywordNextToString

\* the style of the last class, in the order keyword, string, comment, that
\* has a match on the i-th character
LastClassOn(i) ==
    IF Covered(i, SpansOfClass(commentPatterns)) THEN "comment"
    ELSE IF Covered(i, SpansOfClass(stringPatterns)) THEN "string"
    ELSE IF Covered(i, SpansOfClass(keywordPatterns)) THEN "keyword"
    ELSE "none"

StyleIsLastClass == \A i \in 1..Len(block) : CharHasStyle(i, LastClassOn(i))

\* C7: after highlightBlock, every character has the style of the last class,
\* in the order keyword, string, comment, with a match that covers it, and no
\* style when no class covers it.
C7_LastClassWins == StyleIsLastClass

\* C7 holds of the blocks without a character outside the BMP
BmpLastClassWins == IsBmp(block) => StyleIsLastClass

AllPatterns == keywordPatterns \o stringPatterns \o commentPatterns

\* C8, as stated: within each class, the spans of all its patterns together
\* are pairwise non-overlapping.
C8_DisjointWithinClass ==
    /\ PairwiseDisjoint(SpansOfClass(keywordPatterns))
    /\ PairwiseDisjoint(SpansOfClass(stringPatterns))
    /\ PairwiseDisjoint(SpansOfClass(commentPatterns))

\* C8, amended: the spans of one pattern are pairwise non-overlapping, and so
\* are all the spans of the keyword class and those of the comment class; the
\* spans of the two string patterns may overlap each other.
C8_DisjointWithinPattern ==
    /\ \A k \in 1..Len(AllPatterns) :
           PairwiseDisjoint(SpansOfPattern(AllPatterns[k]))
    /\ PairwiseDisjoint(SpansOfClass(keywordPatterns))
    /\ PairwiseDisjoint(SpansOfClass(commentPatterns))

\* C8, witness: a block in which one string pattern has two matches and a
\* match of the other string pattern overlaps one of them
C8_Witness ==
    /\ Cardinality(SpansOfPattern(stringPatterns[1])) >= 2
    /\ \E s \in SpansOfPattern(stringPatterns[1]) :
           \E t \in SpansOfPattern(stringPatterns[2]) : Overlap(s, t)

=============================================================================
